---- MODULE Spec2Model ----
(***************************************************************************)
(* The cube grid of JC-ysg/cube, in its two variants:                      *)
(*   variant "A" = src/unnamed/part_000  (reveal in place, reset on        *)
(*                                         secondary click)                *)
(*   variant "B" = src/main.js           (spawn and stack, column          *)
(*                                         highlight, reset disabled)      *)
(*                                                                         *)
(* Lengths are in thousandths of a world unit (0.5 is 500), opacities in   *)
(* hundredths (0.1 is 10), time in halves of a time unit (1.5 is 3).  All  *)
(* coordinates of the program are multiples of (cubeSize + spacing) / 2,   *)
(* so the integer arithmetic is exact; IEEE doubles give the same          *)
(* comparisons in the clamp for gridSize = 10 (the target of height 9 and  *)
(* boundaryMax are both 2.2, the target of height 10 is 2.75).            *)
(*                                                                         *)
(* A ray cast is an input: the nearest cube hit is any tracked cube, or no *)
(* cube (0).                                                               *)
(***************************************************************************)
EXTENDS Integers, Sequences, FiniteSets

VARIABLES variant,           \* "A" or "B": which of the two programs runs
          cubes,             \* the tracked cube list, in creation order
          cubePositions,     \* positionKey -> stack height
          highlightedCubes,  \* variant B: the cubes currently tinted by hover
          tweens,            \* the tweening engine's running animations
          ops,               \* placements and resets so far (bounded)
          undone,            \* a reset ran and no primary click came since
          last               \* the step taken last and what its handler read

vars == <<variant, cubes, cubePositions, highlightedCubes,
          tweens, ops, undone, last>>

----------------------------------------------------------------------------
(* Bounds of the model.  gridSize is 10 in the source; the model builds the *)
(* same grid with fewer cubes per axis.                                     *)
gridSize == 2
MaxOps == 3

(* Program constants. *)
SourceGridSize == 10
cubeSize == 500
spacing == 50
dropDuration == 3
resetDuration == 2
tolerance == 1
opacityA == 10
opacityB == 1
opacityBase == 80
opacityResetValue == 10
opacityTextured == 100
emissiveBlack == 0
emissiveRed == 16711680

Min(a, b) == IF a < b THEN a ELSE b
Max(a, b) == IF a > b THEN a ELSE b

(* (i - g / 2) * (cubeSize + spacing), with g / 2 a JavaScript division:   *)
(* i * step - g * step / 2, and step is even.                               *)
gridCoord(i, g) == i * (cubeSize + spacing) - (g * (cubeSize + spacing)) \div 2

boundaryMinOf(g) == -((g * (cubeSize + spacing)) \div 2)
boundaryMaxOf(g) == (g * (cubeSize + spacing)) \div 2 - (cubeSize + spacing)
topOfGridOf(g) == (g * (cubeSize + spacing)) \div 2

boundaryMin == boundaryMinOf(gridSize)
boundaryMax == boundaryMaxOf(gridSize)
topOfGrid == topOfGridOf(gridSize)

(* `${x}_${y}`: distinct pairs of numbers give distinct strings. *)
positionKey(x, y) == <<x, y>>

NumStartup == gridSize * gridSize * gridSize

(* The startup cube created in iteration (x, y, z) of the loops is number  *)
(* x * gridSize^2 + y * gridSize + z + 1 of the cube list.                  *)
xIndex(i) == (i - 1) \div (gridSize * gridSize)
yIndex(i) == ((i - 1) \div gridSize) % gridSize
zIndex(i) == (i - 1) % gridSize

startupOpacity(v, z) == IF v = "A" THEN opacityA
                        ELSE IF z = 0 THEN opacityBase ELSE opacityB

startupCube(v, i) ==
    [x |-> gridCoord(xIndex(i), gridSize),
     y |-> gridCoord(yIndex(i), gridSize),
     z |-> gridCoord(zIndex(i), gridSize),
     opacity |-> startupOpacity(v, zIndex(i)),
     map |-> "null",
     emissive |-> emissiveBlack,
     textured |-> FALSE]

(* originalPositions: startup cube -> a copy of its spawn coordinate.  The *)
(* map is filled by the construction loops and never written again.        *)
originalPositions ==
    [i \in 1..NumStartup |->
        [x |-> gridCoord(xIndex(i), gridSize),
         y |-> gridCoord(yIndex(i), gridSize),
         z |-> gridCoord(zIndex(i), gridSize)]]

(* The rays of the model: the pointer stays over two columns of the grid,  *)
(* the one built first and the one built last (they differ in x and in y), *)
(* and a ray hits any cube of these columns, startup or spawned, or        *)
(* nothing.  The other columns are built and tracked but never under the   *)
(* pointer: the handlers treat every column alike.                          *)
PointerKeys ==
    {positionKey(originalPositions[1].x, originalPositions[1].y),
     positionKey(originalPositions[NumStartup].x,
                 originalPositions[NumStartup].y)}

Hits(cs) ==
    {0} \cup {c \in 1..Len(cs) : positionKey(cs[c].x, cs[c].y) \in PointerKeys}

(* What the handler that ran last was given and read: the event, how it   *)
(* ended, the column key of the cube hit, the stack height read and        *)
(* (variant A) the textured flag read.                                      *)
NoKey == <<>>
NoEvent == [op |-> "start", outcome |-> "none", key |-> NoKey, h |-> 0,
            tex |-> FALSE]

Init ==
    /\ variant \in {"A", "B"}
    /\ cubes = [i \in 1..NumStartup |-> startupCube(variant, i)]
    /\ cubePositions =
          [k \in {positionKey(cubes[i].x, cubes[i].y) : i \in 1..NumStartup}
              |-> 0]
    /\ highlightedCubes = <<>>
    /\ tweens = <<>>
    /\ ops = 0
    /\ undone = FALSE
    /\ last = NoEvent

----------------------------------------------------------------------------
(* The tweening engine.  A tween animates some properties of one cube's    *)
(* position to end values over dur ticks; there is no cancellation and no  *)
(* overwriting: every tween runs to its end and writes its properties on   *)
(* every tick, the tweens in creation order.  The easing curve is the      *)
(* engine's; between the end points the model interpolates linearly, and   *)
(* a tween that ends writes its end values exactly.                         *)

(* gsap.fromTo(position, {z: fromZ}, {z: toZ, duration}): the start value  *)
(* is written at once.                                                      *)
fromToTween(c, fromZ, toZ, dur) ==
    [target |-> c, to |-> [z |-> toZ], from |-> [z |-> fromZ],
     started |-> TRUE, dur |-> dur, left |-> dur]

(* gsap.to(position, {x, y, z, duration}): the start values are read when  *)
(* the tween first renders.                                                 *)
toTween(c, p, dur) ==
    [target |-> c, to |-> [x |-> p.x, y |-> p.y, z |-> p.z],
     from |-> [x |-> 0, y |-> 0, z |-> 0],
     started |-> FALSE, dur |-> dur, left |-> dur]

tweenFrom(tw, cube) ==
    IF tw.started THEN tw.from
    ELSE [p \in DOMAIN tw.to |-> cube[p]]

tweenValue(tw, from, p) ==
    IF tw.left - 1 = 0 THEN tw.to[p]
    ELSE from[p] + ((tw.to[p] - from[p]) * (tw.dur - (tw.left - 1))) \div tw.dur

(* One tween rendered for one tick on its cube. *)
renderTween(tw, cube) ==
    LET from == tweenFrom(tw, cube) IN
    [q \in DOMAIN cube |->
        IF q \in DOMAIN tw.to THEN tweenValue(tw, from, q) ELSE cube[q]]

(* The tweens of cube c among tws[1..n], in creation order. *)
tweensOf(tws, n, c) ==
    SelectSeq(SubSeq(tws, 1, n), LAMBDA tw : tw.target = c)

RECURSIVE renderSeq(_, _, _)
renderSeq(ts, k, cube) ==
    IF k = 0 THEN cube
    ELSE renderTween(ts[k], renderSeq(ts, k - 1, cube))

(* The tweens of cube c among tws[1..n] rendered on it, one after the      *)
(* other.                                                                   *)
renderAll(tws, n, c, cube) ==
    LET ts == tweensOf(tws, n, c) IN renderSeq(ts, Len(ts), cube)

(* The tween as it is after that tick; a tween that renders for the first  *)
(* time reads its start values from the cube as the earlier tweens of this *)
(* tick left it.                                                            *)
stepTween(tws, t, cs) ==
    IF tws[t].started THEN [tws[t] EXCEPT !.left = @ - 1]
    ELSE [tws[t] EXCEPT
             !.from = tweenFrom(tws[t], renderAll(tws, t - 1, tws[t].target,
                                                  cs[tws[t].target])),
             !.started = TRUE,
             !.left = @ - 1]

(* The tweens that go on after the tick: a tween that reached its end is   *)
(* dropped.                                                                 *)
stepAll(tws, cs) ==
    SelectSeq([t \in 1..Len(tws) |-> stepTween(tws, t, cs)],
              LAMBDA tw : tw.left > 0)

Tick ==
    /\ tweens # <<>>
    /\ cubes' = [c \in 1..Len(cubes) |->
                     renderAll(tweens, Len(tweens), c, cubes[c])]
    /\ tweens' = stepAll(tweens, cubes)
    /\ last' = [NoEvent EXCEPT !.op = "tick"]
    /\ UNCHANGED <<variant, cubePositions, highlightedCubes, ops, undone>>

----------------------------------------------------------------------------
(* cubePositions.get(key): undefined for a key the map does not hold. *)
Undefined == -1
stackGet(m, k) == IF k \in DOMAIN m THEN m[k] ELSE Undefined
(* A faulty form of stackSet: the write is lost. *)
stackSetLost(m, k, h) == m

stackSet(m, k, h) == [j \in DOMAIN m \cup {k} |-> IF j = k THEN h ELSE m[j]]

(* Math.min(boundaryMax, Math.max(boundaryMin, newZPosition)) *)
constrainOf(z, g) == Min(boundaryMaxOf(g), Max(boundaryMinOf(g), z))
constrainedZPosition(z) == constrainOf(z, gridSize)

(* A faulty form of newZPositionAOf: the target of the slot above. *)
newZPositionAOffByOne(currentZ, g) ==
    (currentZ + 1) * (cubeSize + spacing) - (g * (cubeSize + spacing)) \div 2

(* Variant A: currentZ * (cubeSize + spacing) - (gridSize / 2) * (cubeSize + spacing) *)
newZPositionAOf(currentZ, g) ==
    currentZ * (cubeSize + spacing) - (g * (cubeSize + spacing)) \div 2
newZPositionA(currentZ) == newZPositionAOf(currentZ, gridSize)

(* A faulty form of alreadyTextured: the early return left out. *)
alreadyTexturedOff(cube) == FALSE

(* Variant A, the guard of the early return: the hit cube is textured. *)
alreadyTextured(cube) == cube.textured

(* A faulty form of onCubeClickA: a click that hits nothing textures the   *)
(* first cube of the list.                                                  *)
onCubeClickAMissActs(c) ==
    /\ cubes' = IF c = 0 THEN [cubes EXCEPT ![1].textured = TRUE,
                                            ![1].map = "texture"]
                ELSE cubes
    /\ last' = [NoEvent EXCEPT !.op = "click",
                   !.outcome = IF c = 0 THEN "miss" ELSE "ignored"]
    /\ UNCHANGED <<cubePositions, tweens, ops>>

(* Variant A, onCubeClick with the nearest hit c (0: nothing hit). *)
onCubeClickA(c) ==
    IF c = 0 THEN
        /\ last' = [NoEvent EXCEPT !.op = "click", !.outcome = "miss"]
        /\ UNCHANGED <<cubes, cubePositions, tweens, ops>>
    ELSE IF alreadyTextured(cubes[c]) THEN
        /\ last' = [NoEvent EXCEPT !.op = "click",
                                   !.key = positionKey(cubes[c].x, cubes[c].y),
                                   !.outcome = "ignored",
                                   !.tex = cubes[c].textured,
                                   !.h = stackGet(cubePositions,
                                            positionKey(cubes[c].x, cubes[c].y))]
        /\ UNCHANGED <<cubes, cubePositions, tweens, ops>>
    ELSE
        LET clickedX == cubes[c].x
            clickedY == cubes[c].y
            currentZ == stackGet(cubePositions, positionKey(clickedX, clickedY))
            target == constrainedZPosition(newZPositionA(currentZ))
        IN /\ ops < MaxOps
           /\ cubes' = [cubes EXCEPT ![c].map = "texture",
                                     ![c].opacity = opacityTextured,
                                     ![c].textured = TRUE,
                                     ![c].z = topOfGrid]
           /\ tweens' = Append(tweens,
                               fromToTween(c, topOfGrid, target, dropDuration))
           /\ cubePositions' = stackSet(cubePositions,
                                        positionKey(clickedX, clickedY),
                                        currentZ + 1)
           /\ ops' = ops + 1
           /\ last' = [op |-> "click", outcome |-> "placed",
                       key |-> positionKey(clickedX, clickedY),
                       h |-> currentZ, tex |-> cubes[c].textured]

PrimaryA ==
    /\ variant = "A"
    /\ \E c \in Hits(cubes) : onCubeClickA(c)
    /\ undone' = FALSE
    /\ UNCHANGED <<variant, highlightedCubes>>

(* undoAllCubes: every cube is sent back to its spawn coordinate and loses  *)
(* its texture, cube after cube in list order; then every key is set to 0.  *)
undoTweens(cs, orig) ==
    [i \in 1..Len(cs) |-> toTween(i, orig[i], resetDuration)]

(* A faulty form of undoCube: the textured flag is not reset. *)
undoCubeKeepsFlag(cube) ==
    [cube EXCEPT !.map = "null", !.opacity = opacityResetValue]

undoCube(cube) ==
    [cube EXCEPT !.map = "null", !.opacity = opacityResetValue,
                 !.textured = FALSE]

(* A faulty form of undoStackHeights: the heights are left as they are. *)
undoStackHeightsNone(m) == m

(* A faulty form of undoStackHeights: every height is lowered by one. *)
undoStackHeightsByOne(m) == [k \in DOMAIN m |-> Max(0, m[k] - 1)]

undoStackHeights(m) == [k \in DOMAIN m |-> 0]

undoAllCubes ==
    /\ cubes' = [i \in 1..Len(cubes) |-> undoCube(cubes[i])]
    /\ tweens' = tweens \o undoTweens(cubes, originalPositions)
    /\ cubePositions' = undoStackHeights(cubePositions)

(* Variant A, mousedown with button 2. *)
SecondaryA ==
    /\ variant = "A"
    /\ ops < MaxOps
    /\ undoAllCubes
    /\ ops' = ops + 1
    /\ undone' = TRUE
    /\ last' = [NoEvent EXCEPT !.op = "secondary",
                   !.outcome = IF \E k \in DOMAIN cubePositions :
                                       cubePositions[k] > 0
                               THEN "lowered" ELSE "reset"]
    /\ UNCHANGED <<variant, highlightedCubes>>

----------------------------------------------------------------------------
(* Variant B. *)

(* cubePositions.get(key) || 0 *)
stackGetOrZero(m, k) == IF k \in DOMAIN m THEN m[k] ELSE 0

(* A faulty form of newZPositionBOf: the slot of the height read. *)
newZPositionBStale(currentZ, g) ==
    currentZ * (cubeSize + spacing) - (g * (cubeSize + spacing)) \div 2

(* ((currentZ + 1) * (cubeSize + spacing)) - (gridSize / 2) * (cubeSize + spacing) *)
newZPositionBOf(currentZ, g) ==
    (currentZ + 1) * (cubeSize + spacing) - (g * (cubeSize + spacing)) \div 2
newZPositionB(currentZ) == newZPositionBOf(currentZ, gridSize)

(* Faulty forms of the full-stack guard: the guard left out, and <= for <. *)
belowMaxStackHeightOff(currentZ) == TRUE
atMostMaxStackHeight(currentZ) == currentZ <= gridSize

(* currentZ < maxStackHeight *)
belowMaxStackHeight(currentZ) == currentZ < gridSize

(* new THREE.Mesh(clicked.geometry, clicked.material.clone()) at the       *)
(* clicked cube's position, then the texture, opacity 1, emissive black    *)
(* and textured = true on the new cube.                                     *)
(* A faulty form of setHexBlack: the cloned tint is kept. *)
setHexKept(emissive) == emissive

setHexBlack(emissive) == emissiveBlack

(* A faulty form of spawnedCube: the new cube is not marked textured. *)
spawnedCubeUnmarked(clicked) ==
    [x |-> clicked.x, y |-> clicked.y, z |-> clicked.z,
     opacity |-> opacityTextured, map |-> "texture",
     emissive |-> emissiveBlack, textured |-> FALSE]

spawnedCube(clicked) ==
    [x |-> clicked.x, y |-> clicked.y, z |-> clicked.z,
     opacity |-> opacityTextured, map |-> "texture",
     emissive |-> setHexBlack(clicked.emissive), textured |-> TRUE]

(* Variant B, onCubeClick with the nearest hit c (0: nothing hit). *)
onCubeClickB(c) ==
    IF c = 0 THEN
        /\ last' = [NoEvent EXCEPT !.op = "click", !.outcome = "miss"]
        /\ UNCHANGED <<cubes, cubePositions, tweens, ops>>
    ELSE
        LET clickedX == cubes[c].x
            clickedY == cubes[c].y
            currentZ == stackGetOrZero(cubePositions,
                                       positionKey(clickedX, clickedY))
            target == constrainedZPosition(newZPositionB(currentZ))
            n == Len(cubes) + 1
        IN IF belowMaxStackHeight(currentZ) THEN
              /\ ops < MaxOps
              /\ cubes' = Append(cubes,
                             [spawnedCube(cubes[c]) EXCEPT !.z = topOfGrid])
              /\ tweens' = Append(tweens,
                              fromToTween(n, topOfGrid, target, dropDuration))
              /\ cubePositions' = stackSet(cubePositions,
                                           positionKey(clickedX, clickedY),
                                           currentZ + 1)
              /\ ops' = ops + 1
              /\ last' = [NoEvent EXCEPT !.op = "click",
                              !.outcome = "placed",
                              !.key = positionKey(clickedX, clickedY),
                              !.h = currentZ]
           ELSE
              /\ last' = [NoEvent EXCEPT !.op = "click",
                              !.outcome = "refused",
                              !.key = positionKey(clickedX, clickedY),
                              !.h = currentZ]
              /\ UNCHANGED <<cubes, cubePositions, tweens, ops>>

PrimaryB ==
    /\ variant = "B"
    /\ \E c \in Hits(cubes) : onCubeClickB(c)
    /\ UNCHANGED <<variant, highlightedCubes, undone>>

Abs(a) == IF a < 0 THEN -a ELSE a

(* Math.abs(cube.position.x - targetX) < 0.001 && the same for y *)
sameColumn(cube, targetX, targetY) ==
    /\ Abs(cube.x - targetX) < tolerance
    /\ Abs(cube.y - targetY) < tolerance

(* A faulty form of clearHighlight: the previous highlight is not reset. *)
clearHighlightOff(cube, highlighted) == cube

(* The reset of the previous highlight: the emissive colour of a cube of   *)
(* highlightedCubes is set to black.                                        *)
clearHighlight(cube, highlighted) ==
    IF highlighted THEN [cube EXCEPT !.emissive = emissiveBlack] ELSE cube

(* cubes.forEach of the hit branch: a cube of the hit cube's column is     *)
(* tinted red.                                                              *)
tintColumn(cube, targetX, targetY) ==
    IF sameColumn(cube, targetX, targetY)
    THEN [cube EXCEPT !.emissive = emissiveRed] ELSE cube

(* ... and pushed to highlightedCubes, in list order. *)
columnOf(cs, targetX, targetY) ==
    SelectSeq([i \in 1..Len(cs) |-> i],
              LAMBDA i : sameColumn(cs[i], targetX, targetY))

isHighlighted(hl, i) == \E j \in 1..Len(hl) : hl[j] = i

(* Variant B, onMouseMove with the nearest hit c (0: nothing hit). *)
onMouseMove(c) ==
    IF c = 0 THEN
        /\ cubes' = [i \in 1..Len(cubes) |->
                        clearHighlight(cubes[i],
                                       isHighlighted(highlightedCubes, i))]
        /\ highlightedCubes' = <<>>
        /\ last' = [NoEvent EXCEPT !.op = "move", !.outcome = "miss"]
    ELSE
        /\ cubes' = [i \in 1..Len(cubes) |->
                        tintColumn(clearHighlight(cubes[i],
                                       isHighlighted(highlightedCubes, i)),
                                   cubes[c].x, cubes[c].y)]
        /\ highlightedCubes' = columnOf(cubes, cubes[c].x, cubes[c].y)
        /\ last' = [NoEvent EXCEPT !.op = "move", !.outcome = "hit",
                                   !.key = positionKey(cubes[c].x, cubes[c].y)]

MouseMoveB ==
    /\ variant = "B"
    /\ \E c \in Hits(cubes) : onMouseMove(c)
    /\ UNCHANGED <<variant, cubePositions, tweens, ops, undone>>

(* A faulty form of SecondaryB: the reset of flags, materials and heights runs. *)
SecondaryBUndo ==
    /\ variant = "B"
    /\ cubes' = [i \in 1..Len(cubes) |-> undoCube(cubes[i])]
    /\ cubePositions' = undoStackHeights(cubePositions)
    /\ last' = [NoEvent EXCEPT !.op = "secondary"]
    /\ UNCHANGED <<variant, highlightedCubes, tweens, ops, undone>>

(* Variant B, mousedown with button 2: the case holds only comments. *)
SecondaryB ==
    /\ variant = "B"
    /\ last' = [NoEvent EXCEPT !.op = "secondary"]
    /\ UNCHANGED <<variant, cubes, cubePositions, highlightedCubes, tweens,
                   ops, undone>>

Next ==
    \/ Tick
    \/ PrimaryA
    \/ SecondaryA
    \/ PrimaryB
    \/ MouseMoveB
    \/ SecondaryB

Spec == Init /\ [][Next]_vars

----------------------------------------------------------------------------
(* The claims. *)

ColumnKeys ==
    {positionKey(gridCoord(x, gridSize), gridCoord(y, gridSize)) :
        x \in 0..(gridSize - 1), y \in 0..(gridSize - 1)}

keyOf(cube) == positionKey(cube.x, cube.y)

(* The column of the successful placement a step makes, if it makes one:   *)
(* variant A textures a cube of the column, variant B adds a cube of the   *)
(* column to the cube list.                                                 *)
PlacedKeys ==
    IF variant = "B"
    THEN IF Len(cubes') = Len(cubes) + 1
         THEN {keyOf(cubes'[Len(cubes')])} ELSE {}
    ELSE {keyOf(cubes[i]) :
             i \in {j \in 1..Len(cubes) :
                       ~cubes[j].textured /\ cubes'[j].textured}}

(* C1: in both variants every column has a stack-height counter, 0 after   *)
(* startup and in 0..gridSize in every reachable state; a successful       *)
(* placement in a column raises that column's counter by exactly 1 and     *)
(* leaves every other column's counter unchanged.                           *)
C1_StackCounter ==
    /\ DOMAIN cubePositions = ColumnKeys
    /\ \A k \in ColumnKeys : cubePositions[k] = 0
    /\ [][/\ DOMAIN cubePositions' = ColumnKeys
          /\ \A k \in ColumnKeys : cubePositions'[k] \in 0..gridSize
          /\ \A k \in PlacedKeys :
                cubePositions' = [cubePositions EXCEPT ![k] = @ + 1]]_vars

C1_Witness ==
    /\ last.op = "click"
    /\ last.outcome = "placed"
    /\ cubePositions[last.key] = gridSize

spawnedAtRest(i) ==
    /\ i > NumStartup
    /\ \A t \in 1..Len(tweens) : tweens[t].target # i

(* C2: variant B, no two placed cubes of a column come to rest at the same *)
(* z: the drop targets of the successive placements in a column are        *)
(* pairwise distinct.                                                       *)
C2_DistinctRest ==
    variant = "B" =>
        \A i, j \in 1..Len(cubes) :
            (/\ i # j
             /\ spawnedAtRest(i)
             /\ spawnedAtRest(j)
             /\ keyOf(cubes[i]) = keyOf(cubes[j]))
            => cubes[i].z # cubes[j].z

(* C3: variant A, once a reset has run, no primary click has come since    *)
(* and every animation has finished, every cube is at its recorded spawn   *)
(* coordinate.                                                              *)
C3_ResetRestoresPositions ==
    (variant = "A" /\ undone /\ tweens = <<>>) =>
        \A i \in 1..Len(cubes) :
            /\ cubes[i].x = originalPositions[i].x
            /\ cubes[i].y = originalPositions[i].y
            /\ cubes[i].z = originalPositions[i].z

(* C4: variant A, in the state right after a secondary click every stack   *)
(* height is 0 and every cube is untextured: textured = false, no texture  *)
(* attached, opacity 0.1.                                                   *)
C4_ResetBookkeeping ==
    (variant = "A" /\ last.op = "secondary") =>
        /\ \A k \in DOMAIN cubePositions : cubePositions[k] = 0
        /\ \A i \in 1..Len(cubes) :
              /\ cubes[i].textured = FALSE
              /\ cubes[i].map = "null"
              /\ cubes[i].opacity = 10

C4_Witness ==
    /\ variant = "A"
    /\ last.op = "secondary"
    /\ last.outcome = "lowered"
    /\ tweens # <<>>

(* C5: variant A, a primary click whose nearest hit is a textured cube     *)
(* changes no cube, starts no animation and changes no stack height.       *)
C5_TexturedClickIgnored ==
    [][(variant = "A" /\ last'.op = "click" /\ last'.tex)
          => UNCHANGED <<cubes, tweens, cubePositions, highlightedCubes>>]_vars

C5_Witness ==
    /\ variant = "A"
    /\ last.op = "click"
    /\ last.tex
    /\ last.outcome = "ignored"

(* C6: variant B, a primary click on a cube whose column height equals     *)
(* gridSize creates no cube, starts no animation and changes no stack      *)
(* height.                                                                  *)
C6_FullStackRefused ==
    [][(/\ variant = "B"
        /\ last'.op = "click"
        /\ last'.key \in DOMAIN cubePositions
        /\ cubePositions[last'.key] = gridSize)
          => UNCHANGED <<cubes, tweens, cubePositions>>]_vars

C6_Witness ==
    /\ variant = "B"
    /\ last.op = "click"
    /\ last.outcome = "refused"
    /\ cubePositions[last.key] = gridSize

(* The tracked cubes whose x and y are each within 0.001 of the hit's. *)
WithinTolerance(key) ==
    {i \in 1..Len(cubes) :
        /\ Abs(cubes[i].x - key[1]) < 1
        /\ Abs(cubes[i].y - key[2]) < 1}

HighlightedSet == {highlightedCubes[j] : j \in 1..Len(highlightedCubes)}

Tinted == {i \in 1..Len(cubes) : cubes[i].emissive # 0}

(* C7: variant B, right after a pointer move that hits a cube the          *)
(* highlighted set holds exactly the tracked cubes within 0.001 of the hit *)
(* cube in x and in y, each once, and exactly those cubes are tinted;      *)
(* right after a pointer move that hits nothing the set is empty and no    *)
(* cube is tinted.                                                          *)
C7_HighlightExact ==
    (variant = "B" /\ last.op = "move") =>
        IF last.outcome = "hit"
        THEN /\ HighlightedSet = WithinTolerance(last.key)
             /\ Cardinality(HighlightedSet) = Len(highlightedCubes)
             /\ Tinted = WithinTolerance(last.key)
             /\ \A i \in Tinted : cubes[i].emissive = 16711680
        ELSE /\ highlightedCubes = <<>>
             /\ Tinted = {}

C7_Witness ==
    /\ variant = "B"
    /\ last.op = "move"
    /\ last.outcome = "hit"
    /\ Len(highlightedCubes) > gridSize
    /\ Len(cubes) > Len(highlightedCubes) + NumStartup - gridSize

(* C8: variant A, the drop target of a placement that read height h is     *)
(* h * (cubeSize + spacing) - (gridSize / 2) * (cubeSize + spacing), the   *)
(* clamp leaves it unchanged, and for h = 0 it is boundaryMin; with the    *)
(* source's gridSize = 10 the target of h = 0 is -2.75 = boundaryMin and   *)
(* the clamp leaves the targets of h = 0..9 unchanged.                      *)
C8_DropTargetA ==
    /\ (variant = "A" /\ last.op = "click" /\ last.outcome = "placed") =>
          /\ tweens[Len(tweens)].to.z =
                last.h * (500 + 50) - (gridSize * (500 + 50)) \div 2
          /\ last.h = 0 => tweens[Len(tweens)].to.z = boundaryMin
    /\ newZPositionAOf(0, SourceGridSize) = -2750
    /\ boundaryMinOf(SourceGridSize) = -2750
    /\ \A h \in 0..(SourceGridSize - 1) :
          constrainOf(newZPositionAOf(h, SourceGridSize), SourceGridSize)
             = h * (500 + 50) - 2750

C8_Witness ==
    /\ variant = "A"
    /\ last.op = "click"
    /\ last.outcome = "placed"
    /\ last.h = gridSize - 1

C10_HeightsMonotone ==
    [][\A k \in DOMAIN cubePositions :
          (k \in DOMAIN cubePositions' /\ cubePositions'[k] < cubePositions[k])
             => /\ variant = "A"
                /\ last'.op = "secondary"
                /\ \A j \in DOMAIN cubePositions' : cubePositions'[j] = 0]_vars

C10_Witness ==
    /\ variant = "A"
    /\ last.op = "secondary"
    /\ last.outcome = "lowered"
    /\ \A k \in DOMAIN cubePositions : cubePositions[k] = 0

(* The number of cubes spawned in the column of spawned cube i before it: *)
(* the stack height its click read.                                         *)
heightReadFor(i) ==
    Cardinality({j \in (NumStartup + 1)..(i - 1) :
                    keyOf(cubes[j]) = keyOf(cubes[i])})

(* (h + 1) * (cubeSize + spacing) - (gridSize / 2) * (cubeSize + spacing), *)
(* clamped to [boundaryMin, boundaryMax].                                   *)
ClampedTargetB(h) ==
    LET t == (h + 1) * (500 + 50) - (gridSize * (500 + 50)) \div 2
        lo == -((gridSize * (500 + 50)) \div 2)
        hi == (gridSize * (500 + 50)) \div 2 - (500 + 50)
    IN IF t < lo THEN lo ELSE IF t > hi THEN hi ELSE t

tweensOn(i) == {t \in 1..Len(tweens) : tweens[t].target = i}

RECURSIVE SumHeightsTo(_)
SumHeightsTo(n) ==
    IF n = 0 THEN 0
    ELSE LET o == originalPositions[(n - 1) * gridSize + 1]
         IN cubePositions[positionKey(o.x, o.y)] + SumHeightsTo(n - 1)

SumHeights == SumHeightsTo(gridSize * gridSize)

(* C12: variant B, the tracked cube list holds the gridSize^3 startup      *)
(* cubes plus one cube per placement: its length is gridSize^3 plus the    *)
(* sum of the stack heights, and each column holds gridSize startup cubes  *)
(* plus as many spawned cubes as its stack height.                          *)
C12_CubeListGrowth ==
    variant = "B" =>
        /\ Len(cubes) = gridSize * gridSize * gridSize + SumHeights
        /\ \A k \in DOMAIN cubePositions :
              /\ Cardinality({i \in 1..NumStartup : keyOf(cubes[i]) = k})
                    = gridSize
              /\ Cardinality({i \in (NumStartup + 1)..Len(cubes) :
                                 keyOf(cubes[i]) = k}) = cubePositions[k]

C12_Witness ==
    /\ variant = "B"
    /\ Len(cubes) = NumStartup + MaxOps
    /\ \E k \in DOMAIN cubePositions : cubePositions[k] = gridSize
    /\ tweens = <<>>

(* C13: variant A, in every reachable state the stack height of a column   *)
(* is the number of cubes of the column whose textured flag is true.       *)
C13_HeightCountsTextured ==
    variant = "A" =>
        \A k \in DOMAIN cubePositions :
            cubePositions[k] =
               Cardinality({i \in 1..Len(cubes) :
                               keyOf(cubes[i]) = k /\ cubes[i].textured})

C13_Witness ==
    /\ variant = "A"
    /\ last.op = "click"
    /\ last.outcome = "placed"
    /\ ops = MaxOps
    /\ Cardinality({i \in 1..Len(cubes) : cubes[i].textured}) = 1

(* C14: variant B, a successful placement leaves every cube already in the *)
(* list, the clicked one among them, as it was (position, opacity,         *)
(* texture, tint, textured flag); the cube it adds has the texture,        *)
(* opacity 1, no tint and textured = true.                                  *)
C14_ClickedCubeUntouched ==
    [][(variant = "B" /\ Len(cubes') = Len(cubes) + 1) =>
          /\ SubSeq(cubes', 1, Len(cubes)) = cubes
          /\ cubes'[Len(cubes')].map = "texture"
          /\ cubes'[Len(cubes')].opacity = 100
          /\ cubes'[Len(cubes')].emissive = 0
          /\ cubes'[Len(cubes')].textured = TRUE]_vars

C14_Witness ==
    /\ variant = "B"
    /\ last.op = "click"
    /\ last.outcome = "placed"
    /\ \E i \in 1..NumStartup :
          /\ keyOf(cubes[i]) = last.key
          /\ cubes[i].emissive = 16711680
          /\ cubes[i].opacity = 1

(* C15: variant B, in every reachable state a tracked cube is tinted if    *)
(* and only if it is in the highlighted set; a cube spawned by a click on  *)
(* a highlighted cube is neither.                                           *)
C15_TintIffHighlighted ==
    variant = "B" => Tinted = HighlightedSet

C15_Witness ==
    /\ variant = "B"
    /\ last.op = "click"
    /\ last.outcome = "placed"
    /\ highlightedCubes # <<>>
    /\ keyOf(cubes[highlightedCubes[1]]) = last.key
    /\ Len(cubes) \notin HighlightedSet
    /\ cubes[Len(cubes)].emissive = 0

(* C16: in both variants a primary click whose ray hits no cube changes    *)
(* nothing: the cube list and every cube, every stack height and the       *)
(* running animations stay as they are.                                     *)
C16_MissIsNoOp ==
    [][(last'.op = "click" /\ last'.outcome = "miss")
          => UNCHANGED <<cubes, cubePositions, tweens, highlightedCubes>>]_vars

C16_Witness ==
    /\ last.op = "click"
    /\ last.outcome = "miss"
    /\ tweens # <<>>
    /\ \E k \in DOMAIN cubePositions : cubePositions[k] > 0

====
